---------------------------- MODULE Spec2Model ----------------------------
(***************************************************************************)
(* werobot/client.py: the access-token cache of Client (the token         *)
(* property, grant_token, request) run by one caller or by several        *)
(* threads sharing one Client, and the payment signing operations.        *)
(*                                                                         *)
(* Time is counted in half seconds, so that time.time() (a float) and     *)
(* int(time.time()) (whole seconds) are different readings of one clock.  *)
(* Access tokens are numbered: token n is the access_token of the n-th    *)
(* response the token endpoint produced.                                  *)
(***************************************************************************)
EXTENDS Integers, Sequences, FiniteSets, TLC

\* Bounds of the model.
NumThreads == 2
MaxOps == 2
MaxThreadOps == 1
MaxPayOps == 1
MaxDepth == 4

\* Python's None for the two credential fields (Client.__init__).
None == -1
\* The literal 60 of the token property's validity test, in seconds.
SKEW == 60

Threads == 1..NumThreads
\* The single caller of the sequential specifications.
Caller == {1}

\* Instants the clock can show, in half seconds.
ClockValues == {0, 1, 59, 60}
\* expires_in values the token endpoint answers with, in seconds.
ExpiresIn == {30, 90, 7200}
\* Instants of the clock while a payment operation runs (1000 s and after).
PayClockValues == {2000, 2002}

\* The appid the Client was constructed with.
appid == "wx1"
\* Values generate_token() can return.
Nonces == {"abc", "xyz"}

VARIABLES
  _token,            \* Client._token: None or a token number
  token_expires_at,  \* Client.token_expires_at: None or whole seconds
  expires_src,       \* history: the token number of the response token_expires_at came from
  clock,             \* the wall clock, in half seconds
  issued,            \* how many access tokens the token endpoint has produced
  stack,             \* per thread: its call stack, innermost frame last
  result,            \* per thread: how its last operation ended
  calls,             \* per thread: the transport calls of its current operation, in order
  pre,               \* per thread: <<_token, token_expires_at>> when its operation started
  opsDone,           \* per thread: operations started so far
  token_evals,       \* per thread: evaluations of the token property in its current operation
  saw_mixed,         \* per thread: its validity test read a token and an expiry of different responses
  pay_sign_key,      \* Client.pay_sign_key
  pay_partner_id,    \* Client.pay_partner_id
  pay_partner_key,   \* Client.pay_partner_key
  hashed             \* per thread: the digests its current operation computed, in order

pay_keys == <<pay_sign_key, pay_partner_id, pay_partner_key>>

vars == <<_token, token_expires_at, expires_src, clock, issued, stack, result,
          calls, pre, opsDone, token_evals, saw_mixed, pay_keys, hashed>>

-----------------------------------------------------------------------------
\* Python values of the payment operations, and byte strings.

NoneVal == [t |-> "none"]
Str(s) == [t |-> "str", s |-> s]
Num(i) == [t |-> "int", i |-> i]
Dict(d) == [t |-> "dict", d |-> d]

\* str(v).
PyStr(v) == CASE v.t = "str" -> v.s
              [] v.t = "int" -> ToString(v.i)
              [] v.t = "none" -> "None"

\* The truth value an assert tests.
PyTrue(v) == CASE v.t = "str" -> v.s # ""
               [] v.t = "int" -> v.i # 0
               [] v.t = "none" -> FALSE
               [] v.t = "dict" -> DOMAIN v.d # {}

\* The characters the model's strings are made of, in runs of consecutive ASCII codes.
CharRuns ==
  << <<" ", 32>>, <<"%&", 37>>, <<"+", 43>>, <<"-./0123456789:", 45>>, <<"=", 61>>,
     <<"?", 63>>, <<"ABCDEFGHIJKLMNOPQRSTUVWXYZ", 65>>, <<"_", 95>>,
     <<"abcdefghijklmnopqrstuvwxyz", 97>> >>
CharCodes ==
  UNION {{<<SubSeq(CharRuns[r][1], i, i), CharRuns[r][2] + i - 1>> :
            i \in 1..Len(CharRuns[r][1])} : r \in 1..Len(CharRuns)}
OrdTable == [c \in {p[1] : p \in CharCodes} |-> (CHOOSE p \in CharCodes : p[1] = c)[2]]

\* ord(c) of a one-character string.
Ord(c) == OrdTable[c]

\* Byte-wise comparison of two strings, as Python 2 compares str.
RECURSIVE StrLess(_, _)
StrLess(a, b) ==
  IF b = "" THEN FALSE
  ELSE IF a = "" THEN TRUE
  ELSE IF Head(a) = Head(b) THEN StrLess(Tail(a), Tail(b))
  ELSE Ord(Head(a)) < Ord(Head(b))

\* Comparison of two values: None first, then numbers, then strings (Python 2).
ValueLess(v, w) ==
  IF v.t = w.t
    THEN CASE v.t = "str" -> StrLess(v.s, w.s)
           [] v.t = "int" -> v.i < w.i
           [] v.t = "none" -> FALSE
    ELSE v.t = "none" \/ (v.t = "int" /\ w.t = "str")

\* Comparison of two (key, value) tuples.
PairLess(p, q) == StrLess(p[1], q[1]) \/ (p[1] = q[1] /\ ValueLess(p[2], q[2]))

RECURSIVE Insert(_, _)
Insert(p, s) ==
  IF s = <<>> THEN <<p>>
  ELSE IF PairLess(p, s[1]) THEN <<p>> \o s
  ELSE <<s[1]>> \o Insert(p, Tail(s))

\* A variant that leaves the list in the order given (not the code's behaviour).
SortPairsUnsorted(s) == s
\* list.sort() of a list of (key, value) tuples.
RECURSIVE SortPairs(_)
SortPairs(s) == IF s = <<>> THEN <<>> ELSE Insert(s[1], SortPairs(Tail(s)))

\* The concatenation of the strings f[lo], ..., f[hi].
RECURSIVE ConcatRange(_, _, _)
ConcatRange(f, lo, hi) ==
  IF lo > hi THEN ""
  ELSE IF lo = hi THEN f[lo]
  ELSE ConcatRange(f, lo, (lo + hi) \div 2) \o ConcatRange(f, (lo + hi) \div 2 + 1, hi)

\* sep.join(parts).
RECURSIVE Join(_, _)
Join(parts, sep) ==
  IF parts = <<>> THEN ""
  ELSE IF Len(parts) = 1 THEN parts[1]
  ELSE parts[1] \o sep \o Join(Tail(parts), sep)

\* '&'.join(["%s=%s" % (str(p[0]), str(p[1])) for p in pairs]).
JoinPairs(pairs) ==
  Join([i \in 1..Len(pairs) |-> pairs[i][1] \o "=" \o PyStr(pairs[i][2])], "&")

HexLower == "0123456789abcdef"
HexUpper == "0123456789ABCDEF"
HexDigit(digits, n) == SubSeq(digits, n + 1, n + 1)
Hex2(digits, n) == HexDigit(digits, n \div 16) \o HexDigit(digits, n % 16)
Hex4(digits, n) == Hex2(digits, n \div 256) \o Hex2(digits, n % 256)

\* hashlib stands outside the repository: a digest is modelled by a 32-bit checksum of
\* the bytes (two running sums modulo 65521, started from the seed), which depends on
\* every byte and on their order, printed as 8 hex digits.
RECURSIVE SumRange(_, _, _)
SumRange(f, lo, hi) ==
  IF lo > hi THEN 0
  ELSE IF lo = hi THEN f[lo]
  ELSE SumRange(f, lo, (lo + hi) \div 2) + SumRange(f, (lo + hi) \div 2 + 1, hi)
Checksum(text, seed) ==
  LET n == Len(text)
      code == [i \in 1..n |-> Ord(SubSeq(text, i, i))]
      weighted == [i \in 1..n |-> (n - i + 1) * code[i]]
  IN <<(seed + SumRange(code, 1, n)) % 65521,
       (n * seed + SumRange(weighted, 1, n)) % 65521>>
HexDigest(text, seed, digits) ==
  LET c == Checksum(text, seed) IN Hex4(digits, c[2]) \o Hex4(digits, c[1])

\* sha1(text).hexdigest(): lower-case hex.
Sha1Hex(text) == HexDigest(text, 1, HexLower)
\* md5(text).hexdigest().upper(): upper-case hex.
Md5HexUpper(text) == HexDigest(text, 5, HexUpper)

\* urllib.quote_plus: letters, digits and "_.-" stay, a space becomes "+", any other
\* byte becomes %XX.
SafeChars == "ABCDEFGHIJKLMNOPQRSTUVWXYZabcdefghijklmnopqrstuvwxyz0123456789_.-"
SafeSet == {SubSeq(SafeChars, i, i) : i \in 1..Len(SafeChars)}
IsSafe(c) == c \in SafeSet
QuoteChar(c) ==
  IF IsSafe(c) THEN c
  ELSE IF c = " " THEN "+"
  ELSE "%" \o Hex2(HexUpper, Ord(c))
quote_plus(s) == ConcatRange([i \in 1..Len(s) |-> QuoteChar(SubSeq(s, i, i))], 1, Len(s))

\* urllib.urlencode of a list of (key, value) tuples.
urlencode(pairs) ==
  Join([i \in 1..Len(pairs) |-> quote_plus(pairs[i][1]) \o "=" \o quote_plus(PyStr(pairs[i][2]))],
       "&")

\* The keys K in ascending byte-wise order.
RECURSIVE Ascending(_)
Ascending(K) ==
  IF K = {} THEN <<>>
  ELSE LET least == CHOOSE k \in K : \A j \in K \ {k} : StrLess(k, j)
       IN <<least>> \o Ascending(K \ {least})

Reverse(s) == [i \in 1..Len(s) |-> s[Len(s) + 1 - i]]
Rotations(s) == {SubSeq(s, i, Len(s)) \o SubSeq(s, 1, i - 1) : i \in 1..Len(s)}

\* The orders in which the model lets a dict with the keys K be iterated (a Python 2
\* dict iterates in an order of its own): the ascending and the descending order and
\* their rotations, which are all the orders of up to three keys.
Perms(K) ==
  IF K = {} THEN {<<>>}
  ELSE Rotations(Ascending(K)) \cup Rotations(Reverse(Ascending(K)))

\* d.items() when the dict iterates its keys in this order.
Items(d, order) == [i \in 1..Len(order) |-> <<order[i], d[order[i]]>>]

\* dict(pairs): a later pair replaces an earlier one with the same key.
DictOf(pairs) ==
  [k \in {pairs[i][1] : i \in 1..Len(pairs)} |->
     pairs[CHOOSE i \in 1..Len(pairs) :
             pairs[i][1] = k /\ \A j \in (i + 1)..Len(pairs) : pairs[j][1] # k][2]]

\* d.update({k: v}) and d.setdefault(k, v).
Update(d, k, v) == [x \in DOMAIN d \cup {k} |-> IF x = k THEN v ELSE d[x]]
SetDefault(d, k, v) == IF k \in DOMAIN d THEN d ELSE Update(d, k, v)
\* del d[k].
Del(d, k) == [x \in DOMAIN d \ {k} |-> d[x]]

-----------------------------------------------------------------------------
\* JSON values and HTTP responses.

\* The value request() returns when it falls off its end.
PyNone == [py_none |-> TRUE]
\* The decoded JSON object {}.
EmptyObject == [k \in {} |-> 0]

HasKey(json, k) == json # PyNone /\ k \in DOMAIN json

\* A response: its status is 2xx or not, its body decodes as JSON or not.
Response(ok, decodable, json) == [ok |-> ok, decodable |-> decodable, json |-> json]
NoResponse == Response(FALSE, FALSE, PyNone)

ErrorObjects == {[errcode |-> 40001, errmsg |-> "invalid credential"]}

\* What the token endpoint can answer to the n-th grant.
TokenReplies(n) ==
  {Response(TRUE, TRUE, [access_token |-> n, expires_in |-> e]) : e \in ExpiresIn}
  \cup {Response(TRUE, TRUE, j) :
          j \in {[access_token |-> n], [expires_in |-> 90], EmptyObject} \cup ErrorObjects}
  \cup {Response(FALSE, TRUE, EmptyObject), Response(TRUE, FALSE, PyNone)}

\* What any other endpoint can answer.
TargetReplies ==
  {Response(TRUE, TRUE, j) :
     j \in {[errcode |-> 0, errmsg |-> "ok"], [media_id |-> "m1"], EmptyObject} \cup ErrorObjects}
  \cup {Response(FALSE, TRUE, EmptyObject), Response(TRUE, FALSE, PyNone)}

-----------------------------------------------------------------------------
\* Frames of the call stack.

\* data is the data argument of request(): NoneVal when absent, or a dict.
Frame(fn, pc, url, kw, data) ==
  [fn |-> fn, pc |-> pc, url |-> url, kw |-> kw, data |-> data, now |-> 0,
   json |-> PyNone, resp |-> NoResponse, access_token |-> None]

TokenFrame == Frame("token", "l90", "", {}, NoneVal)
RequestFrame(url, kw, data) == Frame("request", "l44", url, kw, data)

Top(t) == stack[t][Len(stack[t])]
At(t, fn, pc) == stack[t] # <<>> /\ Top(t).fn = fn /\ Top(t).pc = pc
SetTop(t, f) == [stack EXCEPT ![t] = [@ EXCEPT ![Len(@)] = f]]
Push(t, caller, f) == [stack EXCEPT ![t] = Append([@ EXCEPT ![Len(@)] = caller], f)]
Pop(s) == SubSeq(s, 1, Len(s) - 1)

Idle(t) == stack[t] = <<>>

\* How an operation ended (op, params, status, exc, msg, and the value returned: tok,
\* json or out), and what it met on
\* the way: the time its validity test read (now), the answer of the token endpoint
\* (grant) and the answer of the endpoint it called (reply).
NoResult ==
  [op |-> "", params |-> FALSE, status |-> "none", exc |-> "", msg |-> "", tok |-> None,
   json |-> PyNone, out |-> NoneVal, now |-> 0, grant |-> NoResponse, reply |-> NoResponse]

\* An exception: nothing in client.py catches one, so it unwinds the whole stack.
Raise(t, exc, msg) ==
  /\ stack' = [stack EXCEPT ![t] = <<>>]
  /\ result' = [result EXCEPT ![t] = [@ EXCEPT !.status = "raised", !.exc = exc, !.msg = msg]]

-----------------------------------------------------------------------------
\* check_error and the tests of the token property and of request().

\* check_error raises when "errcode" in json and json["errcode"] != 0.
CheckErrorRaises(json) == HasKey(json, "errcode") /\ json.errcode # 0

\* The value check_error returns when it does not raise.
check_error(json) == json

\* Python's truth value of a decoded object: an empty mapping is false.
Truthy(json) == json # PyNone /\ DOMAIN json # {}

\* request(): "if check_error(json): return json", else the function ends.
RequestReturn(json) == IF Truthy(check_error(json)) THEN json ELSE PyNone

\* A variant that reads the token whatever the caller gave (not the code's behaviour).
NeedsTokenAlways(kw) == TRUE
\* request(): "params" not in kwargs.
NeedsToken(kw) == "params" \notin kw

\* "if self._token:".
TokenSet(tok) == tok # None

\* A variant that still accepts a credential exactly 60 s from expiry (not the code's
\* behaviour).
TokenValidInclusive(expires_at, now) == 2 * expires_at - now >= 2 * SKEW
\* self.token_expires_at - now > 60, now = time.time() in half seconds.
TokenValid(expires_at, now) == 2 * expires_at - now > 2 * SKEW

\* time.time() and int(time.time()).
time_time == clock
int_time == clock \div 2


-----------------------------------------------------------------------------
\* Starting an operation, and returning from a frame to its caller.

BeginOp(t, evals, max) ==
  /\ Idle(t)
  /\ opsDone[t] < max
  /\ opsDone' = [opsDone EXCEPT ![t] = @ + 1]
  /\ calls' = [calls EXCEPT ![t] = <<>>]
  /\ pre' = [pre EXCEPT ![t] = <<_token, token_expires_at>>]
  /\ token_evals' = [token_evals EXCEPT ![t] = evals]

\* The token property returns tok: to the operation's caller, or to request() line 45.
ReturnToken(t, tok) ==
  LET s == stack[t]
      n == Len(s)
  IN IF n = 1
       THEN /\ stack' = [stack EXCEPT ![t] = <<>>]
            /\ result' = [result EXCEPT ![t] = [@ EXCEPT !.status = "returned", !.tok = tok]]
       ELSE /\ stack' = [stack EXCEPT ![t] =
                           Append(SubSeq(s, 1, n - 2),
                                  [s[n - 1] EXCEPT !.access_token = tok, !.pc = "l46"])]
            /\ UNCHANGED result

\* request() returns json: to the operation's caller, or to the token property line 94.
ReturnJson(t, json) ==
  LET s == stack[t]
      n == Len(s)
  IN IF n = 1
       THEN /\ stack' = [stack EXCEPT ![t] = <<>>]
            /\ result' = [result EXCEPT ![t] = [@ EXCEPT !.status = "returned", !.json = json]]
       ELSE /\ stack' = [stack EXCEPT ![t] =
                           Append(SubSeq(s, 1, n - 2),
                                  [s[n - 1] EXCEPT !.json = json, !.pc = "l95"])]
            /\ UNCHANGED result

-----------------------------------------------------------------------------
\* The operations of a caller: reading Client.token, and Client.request.

\* A caller reads client.token.
StartToken(t, max) ==
  /\ BeginOp(t, 1, max)
  /\ result' = [result EXCEPT ![t] = [NoResult EXCEPT !.op = "token"]]
  /\ hashed' = [hashed EXCEPT ![t] = <<>>]
  /\ stack' = [stack EXCEPT ![t] = <<TokenFrame>>]
  /\ UNCHANGED <<_token, token_expires_at, expires_src, clock, issued, saw_mixed, pay_keys>>

\* A caller calls client.request (get or post), with or without params of its own.
StartRequest(t, max) ==
  \E kw \in {{}, {"params"}} :
    /\ BeginOp(t, 0, max)
    /\ result' = [result EXCEPT ![t] =
                    [NoResult EXCEPT !.op = "request", !.params = "params" \in kw]]
    /\ hashed' = [hashed EXCEPT ![t] = <<>>]
    /\ stack' = [stack EXCEPT ![t] = <<RequestFrame("target", kw, NoneVal)>>]
    /\ UNCHANGED <<_token, token_expires_at, expires_src, clock, issued, saw_mixed, pay_keys>>

\* request() lines 44-45: without params, evaluate self.token.
Request44(t) ==
  /\ At(t, "request", "l44")
  /\ IF NeedsToken(Top(t).kw)
       THEN /\ Len(stack[t]) < MaxDepth
            /\ stack' = Push(t, [Top(t) EXCEPT !.pc = "l45"], TokenFrame)
            /\ token_evals' = [token_evals EXCEPT ![t] = @ + 1]
       ELSE /\ stack' = SetTop(t, [Top(t) EXCEPT !.pc = "l46"])
            /\ UNCHANGED token_evals
  /\ UNCHANGED <<_token, token_expires_at, expires_src, clock, issued, result,
                 calls, pre, opsDone, saw_mixed>>
  /\ UNCHANGED <<pay_keys, hashed>>

\* json.dumps(d): the text is modelled by the object it encodes.
JsonText(d) == [t |-> "json", d |-> d]

\* request() lines 46-47: a dict given as data is sent as JSON text.
RequestBody(data) == IF data.t = "dict" THEN JsonText(data.d) ELSE data

\* request() lines 46-52: the transport call is issued.
Request48(t) ==
  /\ At(t, "request", "l46")
  /\ calls' = [calls EXCEPT ![t] =
                 Append(@, [url |-> Top(t).url, access_token |-> Top(t).access_token,
                            body |-> RequestBody(Top(t).data)])]
  /\ stack' = SetTop(t, [Top(t) EXCEPT !.pc = "wait"])
  /\ UNCHANGED <<_token, token_expires_at, expires_src, clock, issued, result,
                 pre, opsDone, token_evals, saw_mixed>>
  /\ UNCHANGED <<pay_keys, hashed>>

\* The remote end answers the call in flight.
TransportReply(t) ==
  /\ At(t, "request", "wait")
  /\ IF Top(t).url = "token"
       THEN /\ issued' = issued + 1
            /\ \E r \in TokenReplies(issued + 1) :
                 /\ stack' = SetTop(t, [Top(t) EXCEPT !.resp = r, !.pc = "l53"])
                 /\ result' = [result EXCEPT ![t] = [@ EXCEPT !.grant = r]]
       ELSE /\ UNCHANGED issued
            /\ \E r \in TargetReplies :
                 /\ stack' = SetTop(t, [Top(t) EXCEPT !.resp = r, !.pc = "l53"])
                 /\ result' = [result EXCEPT ![t] = [@ EXCEPT !.reply = r]]
  /\ UNCHANGED <<_token, token_expires_at, expires_src, clock, calls,
                 pre, opsDone, token_evals, saw_mixed>>
  /\ UNCHANGED <<pay_keys, hashed>>

\* request() lines 53-56: raise_for_status, r.json(), check_error, return.
Request53(t) ==
  /\ At(t, "request", "l53")
  /\ LET r == Top(t).resp
     IN IF ~r.ok
          THEN Raise(t, "HTTPError", "")
          ELSE IF ~r.decodable
            THEN Raise(t, "ValueError", "")
            ELSE IF CheckErrorRaises(r.json)
              THEN Raise(t, "ClientException",
                         ToString(r.json.errcode) \o ": " \o r.json.errmsg)
              ELSE ReturnJson(t, RequestReturn(r.json))
  /\ UNCHANGED <<_token, token_expires_at, expires_src, clock, issued, calls,
                 pre, opsDone, token_evals, saw_mixed>>
  /\ UNCHANGED <<pay_keys, hashed>>

\* token line 90: "if self._token:".
Token90(t) ==
  /\ At(t, "token", "l90")
  /\ stack' = SetTop(t, [Top(t) EXCEPT !.pc = IF TokenSet(_token) THEN "l91" ELSE "l94"])
  /\ UNCHANGED <<_token, token_expires_at, expires_src, clock, issued, result,
                 calls, pre, opsDone, token_evals, saw_mixed>>
  /\ UNCHANGED <<pay_keys, hashed>>

\* token lines 91-92: now = time.time(); the validity test. None - now raises.
Token91(t) ==
  /\ At(t, "token", "l91")
  /\ IF token_expires_at = None
       THEN Raise(t, "TypeError", "")
       ELSE /\ stack' = SetTop(t, [Top(t) EXCEPT
                  !.now = time_time,
                  !.pc = IF TokenValid(token_expires_at, time_time) THEN "l93" ELSE "l94"])
            /\ result' = [result EXCEPT ![t] = [@ EXCEPT !.now = time_time]]
  /\ saw_mixed' = [saw_mixed EXCEPT ![t] = @ \/ expires_src # _token]
  /\ UNCHANGED <<_token, token_expires_at, expires_src, clock, issued,
                 calls, pre, opsDone, token_evals>>
  /\ UNCHANGED <<pay_keys, hashed>>

\* token line 93: return self._token.
Token93(t) ==
  /\ At(t, "token", "l93")
  /\ ReturnToken(t, _token)
  /\ UNCHANGED <<_token, token_expires_at, expires_src, clock, issued,
                 calls, pre, opsDone, token_evals, saw_mixed>>
  /\ UNCHANGED <<pay_keys, hashed>>

\* token line 94: grant_token() calls self.get, that is request() with params.
Token94(t) ==
  /\ At(t, "token", "l94")
  /\ Len(stack[t]) < MaxDepth
  /\ stack' = Push(t, Top(t), RequestFrame("token", {"params"}, NoneVal))
  /\ UNCHANGED <<_token, token_expires_at, expires_src, clock, issued, result,
                 calls, pre, opsDone, token_evals, saw_mixed>>
  /\ UNCHANGED <<pay_keys, hashed>>

\* token line 95: self._token = json["access_token"].
Token95(t) ==
  /\ At(t, "token", "l95")
  /\ LET json == Top(t).json
     IN IF json = PyNone
          THEN Raise(t, "TypeError", "") /\ UNCHANGED _token
          ELSE IF ~HasKey(json, "access_token")
            THEN Raise(t, "KeyError", "access_token") /\ UNCHANGED _token
            ELSE /\ _token' = json.access_token
                 /\ stack' = SetTop(t, [Top(t) EXCEPT !.pc = "l96"])
                 /\ UNCHANGED result
  /\ UNCHANGED <<token_expires_at, expires_src, clock, issued,
                 calls, pre, opsDone, token_evals, saw_mixed>>
  /\ UNCHANGED <<pay_keys, hashed>>

\* token line 96: self.token_expires_at = int(time.time()) + json["expires_in"].
Token96(t) ==
  /\ At(t, "token", "l96")
  /\ LET json == Top(t).json
     IN IF ~HasKey(json, "expires_in")
          THEN Raise(t, "KeyError", "expires_in") /\ UNCHANGED <<token_expires_at, expires_src>>
          ELSE /\ token_expires_at' = int_time + json.expires_in
               /\ expires_src' = json.access_token
               /\ stack' = SetTop(t, [Top(t) EXCEPT !.pc = "l97"])
               /\ UNCHANGED result
  /\ UNCHANGED <<_token, clock, issued, calls, pre, opsDone, token_evals, saw_mixed>>
  /\ UNCHANGED <<pay_keys, hashed>>

\* token line 97: return self._token.
Token97(t) ==
  /\ At(t, "token", "l97")
  /\ ReturnToken(t, _token)
  /\ UNCHANGED <<_token, token_expires_at, expires_src, clock, issued,
                 calls, pre, opsDone, token_evals, saw_mixed>>
  /\ UNCHANGED <<pay_keys, hashed>>

\* Time passes.
Tick(instants) ==
  /\ \E c \in instants : c > clock /\ clock' = c
  /\ UNCHANGED <<_token, token_expires_at, expires_src, issued, stack, result,
                 calls, pre, opsDone, token_evals, saw_mixed, pay_keys, hashed>>

-----------------------------------------------------------------------------
\* The payment operations.

\* What callers pass to the payment operations.
DeliverInfos ==
  {[openid |-> Str("o1"), transid |-> Str("t1")],
   [deliver_msg |-> Str("ok"), deliver_status |-> Num(1), transid |-> Str("t1")]}
Packages ==
  {[bank_type |-> Str("CFT")], [body |-> Str("a b")]}
ProductIds == {Str("123")}
OutTradeNos == {Str("1001")}

\* A digest an operation computed: the algorithm, the text hashed, the mapping that was
\* signed, and the name and value of the secret appended to it.
Digest(alg, text, of, name, secret) ==
  [alg |-> alg, text |-> text, of |-> of, name |-> name, secret |-> secret]

\* _pay_sign_dict lines 490-498: appid, noncestr and timestamp join the arguments.
PaySignArgs(kwargs, add_noncestr, add_timestamp, nonce) ==
  LET k1 == Update(kwargs, "appid", Str(appid))
      k2 == IF add_noncestr THEN Update(k1, "noncestr", Str(nonce)) ELSE k1
  IN IF add_timestamp THEN Update(k2, "timestamp", Num(int_time)) ELSE k2

\* _pay_sign_dict lines 502-505: _params = params + [('appkey', key)]; _params.sort().
PaySignList(kw, order) == SortPairs(Items(kw, order) \o << <<"appkey", pay_sign_key>> >>)

\* _pay_sign_dict line 507: the string given to sha1.
PaySignText(kw, order) == JoinPairs(PaySignList(kw, order))

\* A variant that returns the list appkey was appended to (not the code's behaviour).
PaySignParamsWithKey(kw, order) == DictOf(PaySignList(kw, order))
\* _pay_sign_dict line 510: the mapping returned, dict(params).
PaySignParams(kw, order) == DictOf(Items(kw, order))

\* create_js_pay_package lines 517-523: partner and the three defaults.
JsPayPackageDict(package) ==
  SetDefault(SetDefault(SetDefault(Update(package, "partner", pay_partner_id),
                                   "bank_type", Str("WX")),
                        "fee_type", Str("1")),
             "input_charset", Str("UTF-8"))

\* create_js_pay_package lines 525-526: params = package.items(); params.sort().
JsPayPackageParams(pkg, order) == SortPairs(Items(pkg, order))

\* create_js_pay_package line 528: the string given to md5.
JsPayPackageText(params) == JoinPairs(params \o << <<"key", pay_partner_key>> >>)

\* create_js_pay_package line 530: the string returned.
JsPayPackageOut(params, sign) == urlencode(params \o << <<"sign", Str(sign)>> >>)

\* chr(n), and str.lower().
Chr(n) == CHOOSE c \in DOMAIN OrdTable : OrdTable[c] = n
LowerChar(c) == IF Ord(c) >= 65 /\ Ord(c) <= 90 THEN Chr(Ord(c) + 32) ELSE c
Lower(s) == ConcatRange([i \in 1..Len(s) |-> LowerChar(SubSeq(s, i, i))], 1, Len(s))

\* create_js_pay_params lines 539-543: the value under key.lower() moves to key.
RECURSIVE JsRename(_, _)
JsRename(d, keys) ==
  IF keys = <<>> THEN d
  ELSE LET oldkey == Lower(keys[1])
       IN JsRename(Update(Del(d, oldkey), keys[1], d[oldkey]), Tail(keys))

\* pay_orderquery line 582: the string given to md5, package.items() as iterated.
OrderqueryText(package, order) ==
  JoinPairs(Items(package, order) \o << <<"key", pay_partner_key>> >>)

\* pay_orderquery line 585: the package string.
OrderqueryPackage(package, order) == JoinPairs(Items(package, order))

\* An operation ends in its first step, raising or returning, or goes on to post().
PayRaise(t, op, msg, digests) ==
  /\ result' = [result EXCEPT ![t] =
                  [NoResult EXCEPT !.op = op, !.status = "raised",
                                   !.exc = "AssertionError", !.msg = msg]]
  /\ hashed' = [hashed EXCEPT ![t] = digests]
  /\ UNCHANGED stack
PayReturn(t, op, out, digests) ==
  /\ result' = [result EXCEPT ![t] = [NoResult EXCEPT !.op = op, !.status = "returned", !.out = out]]
  /\ hashed' = [hashed EXCEPT ![t] = digests]
  /\ UNCHANGED stack
PayPost(t, op, data, digests) ==
  /\ result' = [result EXCEPT ![t] = [NoResult EXCEPT !.op = op]]
  /\ hashed' = [hashed EXCEPT ![t] = digests]
  /\ stack' = [stack EXCEPT ![t] = <<RequestFrame("target", {"data"}, Dict(data))>>]

\* Client.create_js_pay_package(**package).
create_js_pay_package(t) ==
  /\ BeginOp(t, 0, MaxPayOps)
  /\ \E package \in Packages :
       IF ~PyTrue(pay_partner_id)
         THEN PayRaise(t, "create_js_pay_package", "PAY_PARTNER_ID IS EMPTY", <<>>)
       ELSE IF ~PyTrue(pay_partner_key)
         THEN PayRaise(t, "create_js_pay_package", "PAY_PARTNER_KEY IS EMPTY", <<>>)
       ELSE LET pkg == JsPayPackageDict(package)
            IN \E order \in Perms(DOMAIN pkg) :
                 LET params == JsPayPackageParams(pkg, order)
                     text == JsPayPackageText(params)
                     sign == Md5HexUpper(text)
                 IN PayReturn(t, "create_js_pay_package", Str(JsPayPackageOut(params, sign)),
                              <<Digest("md5", text, pkg, "key", pay_partner_key)>>)
  /\ UNCHANGED <<_token, token_expires_at, expires_src, clock, issued, saw_mixed, pay_keys>>

\* Client.create_js_pay_params(**package).
create_js_pay_params(t) ==
  /\ BeginOp(t, 0, MaxPayOps)
  /\ \E package \in Packages, nonce \in Nonces :
       IF ~PyTrue(pay_partner_id)
         THEN PayRaise(t, "create_js_pay_params", "PAY_PARTNER_ID IS EMPTY", <<>>)
       ELSE IF ~PyTrue(pay_partner_key)
         THEN PayRaise(t, "create_js_pay_params", "PAY_PARTNER_KEY IS EMPTY", <<>>)
       ELSE LET pkg == JsPayPackageDict(package)
            IN \E order \in Perms(DOMAIN pkg) :
                 LET params == JsPayPackageParams(pkg, order)
                     text == JsPayPackageText(params)
                     md5sign == Md5HexUpper(text)
                     d1 == Digest("md5", text, pkg, "key", pay_partner_key)
                     kw == PaySignArgs([package |-> Str(JsPayPackageOut(params, md5sign))],
                                       TRUE, TRUE, nonce)
                 IN IF ~PyTrue(pay_sign_key)
                      THEN PayRaise(t, "create_js_pay_params", "PAY SIGN KEY IS EMPTY", <<d1>>)
                      ELSE \E order2 \in Perms(DOMAIN kw) :
                             LET text2 == PaySignText(kw, order2)
                                 pay_param ==
                                   Update(Update(PaySignParams(kw, order2),
                                                 "paySign", Str(Sha1Hex(text2))),
                                          "signType", Str("SHA1"))
                             IN PayReturn(t, "create_js_pay_params",
                                          Dict(JsRename(pay_param, <<"appId", "timeStamp", "nonceStr">>)),
                                          <<d1, Digest("sha1", text2, kw, "appkey", pay_sign_key)>>)
  /\ UNCHANGED <<_token, token_expires_at, expires_src, clock, issued, saw_mixed, pay_keys>>

\* Client.create_native_pay_url(productid).
create_native_pay_url(t) ==
  /\ BeginOp(t, 0, MaxPayOps)
  /\ \E productid \in ProductIds, nonce \in Nonces :
       IF ~PyTrue(pay_sign_key)
         THEN PayRaise(t, "create_native_pay_url", "PAY SIGN KEY IS EMPTY", <<>>)
         ELSE LET kw == PaySignArgs([productid |-> productid], TRUE, TRUE, nonce)
              IN \E order \in Perms(DOMAIN kw) :
                   LET text == PaySignText(kw, order)
                       params == Update(PaySignParams(kw, order), "sign", Str(Sha1Hex(text)))
                   IN \E order2 \in Perms(DOMAIN params) :
                        PayReturn(t, "create_native_pay_url",
                                  Str("weixin://wxpay/bizpayurl?" \o urlencode(Items(params, order2))),
                                  <<Digest("sha1", text, kw, "appkey", pay_sign_key)>>)
  /\ UNCHANGED <<_token, token_expires_at, expires_src, clock, issued, saw_mixed, pay_keys>>

\* Client.pay_delivernotify(**deliver_info), up to its call of post().
pay_delivernotify(t) ==
  /\ BeginOp(t, 0, MaxPayOps)
  /\ \E deliver_info \in DeliverInfos :
       IF ~PyTrue(pay_sign_key)
         THEN PayRaise(t, "pay_delivernotify", "PAY SIGN KEY IS EMPTY", <<>>)
         ELSE LET kw == PaySignArgs(deliver_info, FALSE, FALSE, "")
              IN \E order \in Perms(DOMAIN kw) :
                   LET text == PaySignText(kw, order)
                       params == Update(Update(PaySignParams(kw, order),
                                               "app_signature", Str(Sha1Hex(text))),
                                        "sign_method", Str("sha1"))
                   IN PayPost(t, "pay_delivernotify", params,
                              <<Digest("sha1", text, kw, "appkey", pay_sign_key)>>)
  /\ UNCHANGED <<_token, token_expires_at, expires_src, clock, issued, saw_mixed, pay_keys>>

\* Client.pay_orderquery(out_trade_no), up to its call of post().
pay_orderquery(t) ==
  /\ BeginOp(t, 0, MaxPayOps)
  /\ \E out_trade_no \in OutTradeNos :
       LET package == [partner |-> pay_partner_id, out_trade_no |-> out_trade_no]
       IN \E order \in Perms(DOMAIN package) :
            LET text == OrderqueryText(package, order)
                signed == Update(package, "sign", Str(Md5HexUpper(text)))
                d1 == Digest("md5", text, package, "key", pay_partner_key)
            IN \E order2 \in Perms(DOMAIN signed) :
                 IF ~PyTrue(pay_sign_key)
                   THEN PayRaise(t, "pay_orderquery", "PAY SIGN KEY IS EMPTY", <<d1>>)
                   ELSE LET kw == PaySignArgs([package |-> Str(OrderqueryPackage(signed, order2))],
                                              FALSE, TRUE, "")
                        IN \E order3 \in Perms(DOMAIN kw) :
                             LET text2 == PaySignText(kw, order3)
                                 params == Update(Update(PaySignParams(kw, order3),
                                                         "app_signature", Str(Sha1Hex(text2))),
                                                  "sign_method", Str("sha1"))
                             IN PayPost(t, "pay_orderquery", params,
                                        <<d1, Digest("sha1", text2, kw, "appkey", pay_sign_key)>>)
  /\ UNCHANGED <<_token, token_expires_at, expires_src, clock, issued, saw_mixed, pay_keys>>

-----------------------------------------------------------------------------
Init ==
  /\ _token = None
  /\ token_expires_at = None
  /\ expires_src = None
  /\ clock = 0
  /\ issued = 0
  /\ stack = [t \in Threads |-> <<>>]
  /\ result = [t \in Threads |-> NoResult]
  /\ calls = [t \in Threads |-> <<>>]
  /\ pre = [t \in Threads |-> <<None, None>>]
  /\ opsDone = [t \in Threads |-> 0]
  /\ token_evals = [t \in Threads |-> 0]
  /\ saw_mixed = [t \in Threads |-> FALSE]
  /\ pay_sign_key = NoneVal
  /\ pay_partner_id = NoneVal
  /\ pay_partner_key = NoneVal
  /\ hashed = [t \in Threads |-> <<>>]

\* One caller at a time.
Next ==
  \/ Tick(ClockValues)
  \/ \E t \in Caller :
       \/ StartToken(t, MaxOps)
       \/ StartRequest(t, MaxOps)
       \/ Request44(t)
       \/ Request48(t)
       \/ TransportReply(t)
       \/ Request53(t)
       \/ Token90(t)
       \/ Token91(t)
       \/ Token93(t)
       \/ Token94(t)
       \/ Token95(t)
       \/ Token96(t)
       \/ Token97(t)

Spec == Init /\ [][Next]_vars

\* Several threads sharing one Client; a thread switch can fall between any two lines.
InitThreads ==
  /\ \/ _token = None /\ token_expires_at = None /\ expires_src = None /\ issued = 0
     \/ _token = 1 /\ token_expires_at = 90 /\ expires_src = 1 /\ issued = 1
  /\ clock = 0
  /\ stack = [t \in Threads |-> <<>>]
  /\ result = [t \in Threads |-> NoResult]
  /\ calls = [t \in Threads |-> <<>>]
  /\ pre = [t \in Threads |-> <<None, None>>]
  /\ opsDone = [t \in Threads |-> 0]
  /\ token_evals = [t \in Threads |-> 0]
  /\ saw_mixed = [t \in Threads |-> FALSE]
  /\ pay_sign_key = NoneVal
  /\ pay_partner_id = NoneVal
  /\ pay_partner_key = NoneVal
  /\ hashed = [t \in Threads |-> <<>>]

NextThreads ==
  \/ Tick(ClockValues)
  \/ \E t \in Threads :
       \/ StartToken(t, MaxThreadOps)
       \/ StartRequest(t, MaxThreadOps)
       \/ Request44(t)
       \/ Request48(t)
       \/ TransportReply(t)
       \/ Request53(t)
       \/ Token90(t)
       \/ Token91(t)
       \/ Token93(t)
       \/ Token94(t)
       \/ Token95(t)
       \/ Token96(t)
       \/ Token97(t)

SpecThreads == InitThreads /\ [][NextThreads]_vars

\* A Client constructed with any of the payment settings given or left out, holding the
\* credential of an earlier refresh, and one caller of a payment operation.
InitPay ==
  /\ _token = 1
  /\ token_expires_at = 1061
  /\ expires_src = 1
  /\ issued = 1
  /\ clock = 2000
  /\ stack = [t \in Threads |-> <<>>]
  /\ result = [t \in Threads |-> NoResult]
  /\ calls = [t \in Threads |-> <<>>]
  /\ pre = [t \in Threads |-> <<None, None>>]
  /\ opsDone = [t \in Threads |-> 0]
  /\ token_evals = [t \in Threads |-> 0]
  /\ saw_mixed = [t \in Threads |-> FALSE]
  /\ pay_sign_key \in {NoneVal, Str("secret")}
  /\ pay_partner_id \in {NoneVal, Str("1900000109")}
  /\ pay_partner_key \in {NoneVal, Str("pkey")}
  /\ hashed = [t \in Threads |-> <<>>]

NextPay ==
  \/ Tick(PayClockValues)
  \/ \E t \in Caller :
       \/ create_js_pay_package(t)
       \/ create_js_pay_params(t)
       \/ create_native_pay_url(t)
       \/ pay_delivernotify(t)
       \/ pay_orderquery(t)
       \/ Request44(t)
       \/ Request48(t)
       \/ TransportReply(t)
       \/ Request53(t)
       \/ Token90(t)
       \/ Token91(t)
       \/ Token93(t)
       \/ Token94(t)
       \/ Token95(t)
       \/ Token96(t)
       \/ Token97(t)

SpecPay == InitPay /\ [][NextPay]_vars

-----------------------------------------------------------------------------
\* Properties of the token cache and of request().

Urls(t) == [i \in 1..Len(calls[t]) |-> calls[t][i].url]
Finished(t) == result[t].status # "none"

\* The credential an operation found: cached and more than 60 s from expiry at the
\* time its validity test read, or absent or within 60 s of expiry.
FoundValid(t) ==
  /\ pre[t][1] # None
  /\ pre[t][2] # None
  /\ 2 * pre[t][2] - result[t].now > 120
FoundExpired(t) ==
  \/ pre[t][1] = None
  \/ pre[t][2] # None /\ 2 * pre[t][2] - result[t].now <= 120

\* C1: one read of the token by a single caller makes no transport call when the cached
\* credential is more than 60 s from expiry, and exactly one call, to the token endpoint,
\* when no credential is cached or it is within 60 s of expiry; a read that returns
\* returns the token the client holds after the call.
C1_TokenCaching ==
  \A t \in Caller :
    result[t].op = "token" =>
      /\ Len(calls[t]) <= 1
      /\ Finished(t) /\ FoundValid(t) =>
           /\ calls[t] = <<>>
           /\ result[t].status = "returned"
           /\ result[t].tok = pre[t][1]
      /\ Finished(t) /\ FoundExpired(t) => Urls(t) = <<"token">>
      /\ result[t].status = "returned" => result[t].tok = _token /\ _token # None

\* C1 witness: a read that found a credential exactly 60 s from expiry refreshed it with
\* one call and returned the new token.
C1_Witness ==
  \E t \in Caller :
    /\ result[t].op = "token"
    /\ result[t].status = "returned"
    /\ pre[t][1] # None
    /\ 2 * pre[t][2] - result[t].now = 120
    /\ Urls(t) = <<"token">>
    /\ result[t].tok # pre[t][1]

\* C2: the pair (token, expiry) a reader meets comes from one response of the token
\* endpoint, or both are unset: no validity test reads an expiry that belongs to
\* another token than the one the client holds, or an unset expiry beside a set token.
C2_RefreshAtomic == \A t \in Threads : ~saw_mixed[t]

InFlightToken(t) == At(t, "request", "wait") /\ Top(t).url = "token"

\* C3: among the threads sharing one Client, at most one request to the token endpoint
\* is in flight at any time.
C3_SingleFlight == Cardinality({t \in Threads : InFlightToken(t)}) <= 1

\* C4: request() raises ClientException with the platform's code and message when the
\* decoded response has a non-zero errcode, and in every other case returns the decoded
\* object itself, the empty object included.
C4_RequestContract ==
  \A t \in Caller :
    LET r == result[t].reply
    IN result[t].op = "request" /\ Finished(t) /\ r.ok /\ r.decodable =>
         IF "errcode" \in DOMAIN r.json /\ r.json.errcode # 0
           THEN /\ result[t].status = "raised"
                /\ result[t].exc = "ClientException"
                /\ result[t].msg = ToString(r.json.errcode) \o ": " \o r.json.errmsg
           ELSE /\ result[t].status = "returned"
                /\ result[t].json = r.json

\* The answers of the token endpoint that make a refresh fail.
RefreshFailed(r) ==
  \/ ~r.ok
  \/ ~r.decodable
  \/ "errcode" \in DOMAIN r.json /\ r.json.errcode # 0
  \/ "access_token" \notin DOMAIN r.json
  \/ "expires_in" \notin DOMAIN r.json

\* C8: when the call to the token endpoint fails (transport failure, non-zero errcode,
\* undecodable body, no access_token or no expires_in), the operation raises, token and
\* expiry keep the values they had before the call, and the request that needed the
\* token is not dispatched.
C8_FailedRefreshKeepsCredential ==
  \A t \in Caller :
    Finished(t) /\ Urls(t) # <<>> /\ Urls(t)[1] = "token" /\ RefreshFailed(result[t].grant) =>
      /\ result[t].status = "raised"
      /\ <<_token, token_expires_at>> = pre[t]
      /\ Urls(t) = <<"token">>

TokenFrames(t) == {i \in 1..Len(stack[t]) : stack[t][i].fn = "token"}

\* C9: request() evaluates the token property exactly when the caller gave no params;
\* the refresh's own request gives params, so a refresh never evaluates it again. Hence
\* a request without params calls the token endpoint first and its own endpoint second
\* when the credential is expired (and stops after the first call when the refresh
\* fails), and calls only its own endpoint when the credential is valid.
C9_TokenOnlyWithoutParams ==
  \A t \in Caller :
    /\ Cardinality(TokenFrames(t)) <= 1
    /\ result[t].op = "request" =>
         /\ token_evals[t] <= 1
         /\ Finished(t) =>
              /\ token_evals[t] = IF result[t].params THEN 0 ELSE 1
              /\ result[t].params => Urls(t) = <<"target">> /\ calls[t][1].access_token = None
              /\ ~result[t].params /\ FoundValid(t) =>
                   /\ Urls(t) = <<"target">>
                   /\ calls[t][1].access_token = pre[t][1]
              /\ ~result[t].params /\ FoundExpired(t) =>
                   IF RefreshFailed(result[t].grant)
                     THEN Urls(t) = <<"token">>
                     ELSE /\ Urls(t) = <<"token", "target">>
                          /\ calls[t][2].access_token = result[t].grant.json.access_token

\* C9 witness: a request without params that found the credential within 60 s of expiry
\* has made its two calls and returned.
C9_Witness ==
  \E t \in Caller :
    /\ result[t].op = "request"
    /\ ~result[t].params
    /\ result[t].status = "returned"
    /\ pre[t][1] # None
    /\ FoundExpired(t)
    /\ Urls(t) = <<"token", "target">>

-----------------------------------------------------------------------------
\* Properties of the payment operations.

PayOps ==
  {"create_js_pay_package", "create_js_pay_params", "create_native_pay_url",
   "pay_delivernotify", "pay_orderquery"}

\* The operations that sign with pay_sign_key (SHA1 scheme), and those that sign with
\* pay_partner_key and inject pay_partner_id (MD5 scheme).
UsesSignKey == PayOps \ {"create_js_pay_package"}
UsesPartner == {"create_js_pay_package", "create_js_pay_params", "pay_orderquery"}

MissingSetting(op) ==
  \/ op \in UsesSignKey /\ ~PyTrue(pay_sign_key)
  \/ op \in UsesPartner /\ (~PyTrue(pay_partner_id) \/ ~PyTrue(pay_partner_key))

\* C5: a payment operation whose signing secret or partner id is unset fails with the
\* configuration error (the failed assert) before any digest is computed with an empty
\* secret and before any transport call.
C5_MissingSecretGuard ==
  \A t \in Caller :
    result[t].op \in PayOps /\ MissingSetting(result[t].op) =>
      /\ result[t].status = "raised"
      /\ result[t].exc = "AssertionError"
      /\ calls[t] = <<>>
      /\ \A i \in 1..Len(hashed[t]) : PyTrue(hashed[t][i].secret)

\* The canonical string of a mapping and a secret: the pairs of the mapping and the pair
\* (name, secret), in ascending byte-wise order of key, joined as key=value with "&".
Canonical(of, name, secret) ==
  LET all == Update(of, name, secret)
      keys == Ascending(DOMAIN all)
  IN Join([i \in 1..Len(keys) |-> keys[i] \o "=" \o PyStr(all[keys[i]])], "&")

ReferenceMapping ==
  [appid |-> Str("wx1"), productid |-> Str("123"), noncestr |-> Str("abc"),
   timestamp |-> Num(1000)]
ReferenceText == "appid=wx1&appkey=secret&noncestr=abc&productid=123&timestamp=1000"

\* C6: the string _pay_sign_dict hashes is the canonical string of the mapping (with
\* appid, noncestr and timestamp) and ("appkey", pay_sign_key), whatever order the dict
\* iterated in; for the reference mapping and the key "secret" it is the reference text.
C6_Sha1Canonical ==
  \A t \in Caller : \A i \in 1..Len(hashed[t]) :
    LET h == hashed[t][i]
    IN h.alg = "sha1" =>
         /\ h.name = "appkey"
         /\ h.text = Canonical(h.of, "appkey", h.secret)
         /\ h.of = ReferenceMapping /\ h.secret = Str("secret") => h.text = ReferenceText

\* C6 witness: create_native_pay_url has signed the reference mapping with "secret".
C6_Witness ==
  \E t \in Caller :
    /\ result[t].op = "create_native_pay_url"
    /\ result[t].status = "returned"
    /\ Len(hashed[t]) = 1
    /\ hashed[t][1].of = ReferenceMapping
    /\ hashed[t][1].secret = Str("secret")
    /\ hashed[t][1].text = ReferenceText

\* C7: at both MD5 signing sites the string hashed is the canonical string of the fields
\* and ("key", pay_partner_key): all pairs, "key" included, in ascending key order
\* (stated for a client whose partner id and partner key are set).
C7_Md5Canonical ==
  \A t \in Caller : \A i \in 1..Len(hashed[t]) :
    LET h == hashed[t][i]
    IN h.alg = "md5" /\ PyTrue(pay_partner_id) /\ PyTrue(pay_partner_key) =>
         h.text = Canonical(h.of, "key", h.secret)

\* The pieces of s between the occurrences of the character c.
Positions(s, c) == {i \in 1..Len(s) : SubSeq(s, i, i) = c}
Least(S) == CHOOSE x \in S : \A y \in S : x <= y
Pieces(s, c) ==
  LET P == Positions(s, c)
  IN {SubSeq(s, a, Least({i \in P : i >= a} \cup {Len(s) + 1}) - 1) :
        a \in {1} \cup {i + 1 : i \in P}}

\* The (name, value) pairs of a query string, after a "?" if it has one.
QueryOf(s) ==
  LET q == Positions(s, "?") IN IF q = {} THEN s ELSE SubSeq(s, Least(q) + 1, Len(s))
NameValue(piece) ==
  LET e == Positions(piece, "=")
  IN IF e = {} THEN <<piece, "">>
     ELSE <<SubSeq(piece, 1, Least(e) - 1), SubSeq(piece, Least(e) + 1, Len(piece))>>
QueryPairs(s) == {NameValue(piece) : piece \in Pieces(QueryOf(s), "&")}

\* A pair that carries a signing secret under the name it is hashed with.
SecretPair(name, text) ==
  \/ name = "appkey" /\ pay_sign_key.t = "str"
       /\ text \in {pay_sign_key.s, quote_plus(pay_sign_key.s)}
  \/ name = "key" /\ pay_partner_key.t = "str"
       /\ text \in {pay_partner_key.s, quote_plus(pay_partner_key.s)}

LeaksInString(s) == \E p \in QueryPairs(s) : SecretPair(p[1], p[2])
LeaksInDict(d) ==
  \E k \in DOMAIN d :
    \/ SecretPair(k, PyStr(d[k]))
    \/ d[k].t = "str" /\ LeaksInString(d[k].s)
Leaks(v) ==
  CASE v.t = "str" -> LeaksInString(v.s)
    [] v.t \in {"dict", "json"} -> LeaksInDict(v.d)
    [] OTHER -> FALSE

\* C10: the signing secrets are used only inside the hashed string: no pair named
\* appkey or key carrying the secret is in the mapping or the string a payment operation
\* returns, or in the body it posts.
C10_SecretConfined ==
  \A t \in Caller :
    /\ ~Leaks(result[t].out)
    /\ \A i \in 1..Len(calls[t]) : ~Leaks(calls[t][i].body)

\* C10 witness: pay_orderquery, with both secrets set, has hashed with each of them and
\* posted its body.
C10_Witness ==
  \E t \in Caller :
    /\ result[t].op = "pay_orderquery"
    /\ Len(hashed[t]) = 2
    /\ hashed[t][1].secret = Str("pkey")
    /\ hashed[t][2].secret = Str("secret")
    /\ \E i \in 1..Len(calls[t]) :
         calls[t][i].url = "target" /\ calls[t][i].body.t = "json"

=============================================================================
